---------------------------- MODULE Spec2Model ----------------------------
(***************************************************************************)
(* The v2 supply-chain shipment handlers of src/src/app.py and the         *)
(* process-wide list created_shipments they work on.                       *)
(*                                                                         *)
(* A Python dict is a function from key strings to values; JSON strings    *)
(* are strings, and Python's None (JSON null) is the value None below.     *)
(* A request body is a record: kind "object" carries the decoded dict in   *)
(* obj, kind "null" is the JSON document null, kind "number" is a non-zero *)
(* JSON number (a decoded value that is no dict) and kind "zero" is the    *)
(* JSON number 0 (no dict either, and falsy).                              *)
(* Under Spec every handler runs to completion as one step (one request at *)
(* a time); ConcSpec and HrConcSpec run the handlers of several requests   *)
(* step by step, interleaved as the threaded server interleaves them.      *)
(***************************************************************************)
EXTENDS Integers, Sequences, FiniteSets, TLC

\* ------------------------------------------------------------------ bounds
MaxShipments == 2      \* creates accepted while the list is shorter than this
MaxClock == 2          \* the clock's last tick
TicksPerSecond == 2    \* clock ticks per second (the real clock: 1000000)
MaxRequests == 3       \* requests the handlers serve in one run
MaxLen == 3            \* longest list handed to paginate_list on its own
MaxPage == 4           \* pages asked of paginate_list run from -MaxPage to MaxPage
MaxLimit == 3          \* limits asked of paginate_list run from -1 to MaxLimit
MaxCalls == 2          \* calls a caller makes with one list, page and limit

\* ------------------------------------------------------------ Python values
None == "None"

\* not v, for the values a field takes here (None and the empty string are falsy)
Falsy(v) == v \in {None, ""}

\* key in d
Has(d, k) == k \in DOMAIN d

\* d.get(k)
Get(d, k) == IF k \in DOMAIN d THEN d[k] ELSE None

\* d[k] = v
Put(d, k, v) == [x \in (DOMAIN d) \cup {k} |-> IF x = k THEN v ELSE d[x]]

EmptyDict == [x \in {} |-> None]

\* ------------------------------------------------------------------- clock
\* datetime.timestamp(): seconds, with the fraction of a second
timestamp(t) == ToString(t \div TicksPerSecond) \o "." \o ToString(t % TicksPerSecond)

\* int(datetime.timestamp()): the fraction is dropped
int_timestamp(t) == ToString(t \div TicksPerSecond)

\* datetime.isoformat()
isoformat(t) == "T" \o timestamp(t)

\* ------------------------------------------------------------------- state
VARIABLES
    created_shipments,   \* the module-level list
    now,                 \* the clock: the last value datetime.utcnow() returned
    served,              \* requests served so far
    request,             \* the request the last step handled
    response,            \* the response that step returned
    paginate_call,       \* one call of paginate_list on its own: arguments and result
    mock_employees,      \* the module-level list of hr_routes.py
    threads              \* the requests in flight at once: each one's position and locals

vars == <<created_shipments, now, served, request, response, paginate_call,
          mock_employees, threads>>

\* ---------------------------------------------------------------- envelope
v2_success_response(data, status_code) ==
    [success |-> TRUE, data |-> data, status_code |-> status_code]

v2_error_response(code, status_code) ==
    [success |-> FALSE, error |-> code, status_code |-> status_code]


\* ------------------------------------------------------------------ inputs
\* Request bodies the callers send.
ObjectBody(d) == [kind |-> "object", obj |-> d]
NullBody == [kind |-> "null"]
NumberBody == [kind |-> "number"]
ZeroBody == [kind |-> "zero"]

\* not data, for the decoded body data: None, 0 and {} are falsy
NotData(body) ==
    \/ body.kind \in {"null", "zero"}
    \/ body.kind = "object" /\ DOMAIN body.obj = {}

CreateObjects ==
    { [k \in {"carrier", "origin", "destination"} |->
          CASE k = "carrier" -> "FedEx" [] k = "origin" -> "NY" [] OTHER -> "LA"],
      [k \in {"status", "id", "trackingNumber", "orderId", "shipDate", "estimatedDelivery"} |->
          CASE k = "status" -> "delivered"
            [] k = "id" -> "ship-9.9"
            [] k = "trackingNumber" -> "TRK-9"
            [] k = "orderId" -> "ORD-1"
            [] k = "shipDate" -> "2024-01-15"
            [] OTHER -> "2024-02-01"] }

\* One-key dicts {k: v} and two-key dicts {k1: v1, k2: v2}
One(k, v) == [x \in {k} |-> v]
Two(k1, v1, k2, v2) == [x \in {k1, k2} |-> IF x = k1 THEN v1 ELSE v2]

UpdateObjects ==
    { EmptyDict,
      One("carrier", ""), One("carrier", "UPS"),
      One("trackingNumber", ""), One("trackingNumber", "TRK-0"),
      One("status", "lost"), One("status", "delivered"), One("status", "pending"),
      One("estimatedDelivery", "2024-03-01"),
      One("estimatedDeliveryDate", "2024-03-01"),
      One("id", "ship-9.9"),
      Two("carrier", "UPS", "status", "lost"),
      Two("status", "cancelled", "trackingNumber", "") }

PatchObjects ==
    { EmptyDict,
      One("status", "delivered"), One("status", "lost"), One("status", "pending"),
      One("trackingNumber", "TRK-0"),
      One("carrier", "UPS"),
      One("estimatedDelivery", "2024-03-01"),
      Two("id", "ship-9.9", "location", "Hub") }

CreateBodies == {NullBody, NumberBody} \cup {ObjectBody(d) : d \in CreateObjects}
UpdateBodies == {NullBody, NumberBody} \cup {ObjectBody(d) : d \in UpdateObjects}
PatchBodies == {NullBody, NumberBody, ZeroBody} \cup {ObjectBody(d) : d \in PatchObjects}

\* An identifier no create ever generates
UnknownId == "ship-unknown"

\* The identifiers a caller puts in the URL: those of the stored records and one more
UrlIds == {created_shipments[i]["id"] : i \in 1..Len(created_shipments)} \cup {UnknownId}

\* ------------------------------------------------------------------ lookup
\* FindShipment reading the loop variable after the loop: a search that finds nothing
\* is left with the last record.
FindShipment_LoopVariable(store, shipment_id) ==
    LET hits == {i \in 1..Len(store) : store[i]["id"] = shipment_id}
    IN IF hits = {} THEN Len(store) ELSE CHOOSE i \in hits : \A j \in hits : i <= j

\* for idx, ship in enumerate(created_shipments): if ship['id'] == shipment_id: break
\* The position of the first record with that id, 0 when the loop ends without one.
FindShipment(store, shipment_id) ==
    LET hits == {i \in 1..Len(store) : store[i]["id"] = shipment_id}
    IN IF hits = {} THEN 0 ELSE CHOOSE i \in hits : \A j \in hits : i <= j

\* ------------------------------------------------------------------ create
\* NewShipment taking the status from the payload, pending as the default
NewShipment_PayloadStatus(data, t1, t2) ==
    [k \in {"id", "trackingNumber", "orderId", "carrier", "origin", "destination",
            "shipDate", "estimatedDelivery", "status"} |->
        CASE k = "id" -> "ship-" \o timestamp(t1)
          [] k = "trackingNumber" -> "TRK-" \o int_timestamp(t2)
          [] k = "status" -> IF Has(data, "status") THEN data["status"] ELSE "pending"
          [] OTHER -> Get(data, k)]

\* The dict literal of v2_create_shipment; t1 and t2 are its two clock readings.
NewShipment(data, t1, t2) ==
    [k \in {"id", "trackingNumber", "orderId", "carrier", "origin", "destination",
            "shipDate", "estimatedDelivery", "status"} |->
        CASE k = "id" -> "ship-" \o timestamp(t1)
          [] k = "trackingNumber" -> "TRK-" \o int_timestamp(t2)
          [] k = "status" -> "pending"
          [] OTHER -> Get(data, k)]

Serve(req, resp) ==
    /\ served < MaxRequests
    /\ served' = served + 1
    /\ request' = req
    /\ response' = resp
    /\ UNCHANGED <<paginate_call, mock_employees, threads>>

\* v2_create_shipment putting the new shipment at the head of the list
v2_create_shipment_Prepend(is_json, body, t1, t2) ==
    LET req == [op |-> "POST", id |-> None, is_json |-> is_json, body |-> body] IN
    IF ~is_json THEN
        /\ Serve(req, v2_error_response("INVALID_CONTENT_TYPE", 400))
        /\ UNCHANGED <<created_shipments, now>>
    ELSE IF body.kind = "null" THEN
        /\ Serve(req, v2_error_response("MISSING_JSON_DATA", 400))
        /\ UNCHANGED <<created_shipments, now>>
    ELSE IF body.kind # "object" THEN
        /\ Serve(req, v2_error_response("SHIPMENT_CREATE_ERROR", 400))
        /\ UNCHANGED <<created_shipments, now>>
    ELSE
        LET shipment == NewShipment(body.obj, t1, t2) IN
        /\ Len(created_shipments) < MaxShipments
        /\ created_shipments' = <<shipment>> \o created_shipments
        /\ now' = t2
        /\ Serve(req, v2_success_response(shipment, 201))

\* v2_create_shipment binding the list to the new shipment alone instead of appending
v2_create_shipment_Rebind(is_json, body, t1, t2) ==
    LET req == [op |-> "POST", id |-> None, is_json |-> is_json, body |-> body] IN
    IF ~is_json THEN
        /\ Serve(req, v2_error_response("INVALID_CONTENT_TYPE", 400))
        /\ UNCHANGED <<created_shipments, now>>
    ELSE IF body.kind = "null" THEN
        /\ Serve(req, v2_error_response("MISSING_JSON_DATA", 400))
        /\ UNCHANGED <<created_shipments, now>>
    ELSE IF body.kind # "object" THEN
        /\ Serve(req, v2_error_response("SHIPMENT_CREATE_ERROR", 400))
        /\ UNCHANGED <<created_shipments, now>>
    ELSE
        LET shipment == NewShipment(body.obj, t1, t2) IN
        /\ Len(created_shipments) < MaxShipments
        /\ created_shipments' = <<shipment>>
        /\ now' = t2
        /\ Serve(req, v2_success_response(shipment, 201))

v2_create_shipment(is_json, body, t1, t2) ==
    LET req == [op |-> "POST", id |-> None, is_json |-> is_json, body |-> body] IN
    IF ~is_json THEN
        /\ Serve(req, v2_error_response("INVALID_CONTENT_TYPE", 400))
        /\ UNCHANGED <<created_shipments, now>>
    ELSE IF body.kind = "null" THEN
        /\ Serve(req, v2_error_response("MISSING_JSON_DATA", 400))
        /\ UNCHANGED <<created_shipments, now>>
    ELSE IF body.kind # "object" THEN
        \* data.get raises AttributeError, caught by the handler's except
        /\ Serve(req, v2_error_response("SHIPMENT_CREATE_ERROR", 400))
        /\ UNCHANGED <<created_shipments, now>>
    ELSE
        LET shipment == NewShipment(body.obj, t1, t2) IN
        /\ Len(created_shipments) < MaxShipments
        /\ created_shipments' = Append(created_shipments, shipment)
        /\ now' = t2
        /\ Serve(req, v2_success_response(shipment, 201))

\* -------------------------------------------------------------- pagination
Min(a, b) == IF a < b THEN a ELSE b
Max(a, b) == IF a > b THEN a ELSE b

\* PySlice cutting the start to the last index instead of the length
PySlice_CutToLastIndex(items, start, stop) ==
    LET n == Len(items)
        lo == IF start < 0 THEN Max(n + start, 0) ELSE Max(Min(start, n - 1), 0)
        hi == IF stop < 0 THEN Max(n + stop, 0) ELSE Min(stop, n)
    IN SubSeq(items, lo + 1, hi)

\* Python's items[start:stop]: a negative index counts from the end of the list, and
\* both indices are then cut to 0..len(items)
PySlice(items, start, stop) ==
    LET n == Len(items)
        lo == IF start < 0 THEN Max(n + start, 0) ELSE Min(start, n)
        hi == IF stop < 0 THEN Max(n + stop, 0) ELSE Min(stop, n)
    IN SubSeq(items, lo + 1, hi)

\* TotalPages rounding down
TotalPages_Floor(total_items, limit) ==
    IF limit > 0 THEN total_items \div limit ELSE 1

\* total_pages = (total_items + limit - 1) // limit if limit > 0 else 1
TotalPages(total_items, limit) ==
    IF limit > 0 THEN (total_items + limit - 1) \div limit ELSE 1

\* StartIndex counting pages from 0
StartIndex_FromZero(page, limit) == page * limit

\* start_index = (page - 1) * limit
StartIndex(page, limit) == (page - 1) * limit

\* paginate_list slicing items[start_index:limit]
paginate_list_EndAtLimit(items, page, limit) ==
    LET total_items == Len(items)
        total_pages == TotalPages(total_items, limit)
        start_index == StartIndex(page, limit)
        paginated_items == PySlice(items, start_index, limit)
    IN [items |-> paginated_items,
        pagination |-> [page |-> page,
                        limit |-> limit,
                        totalPages |-> total_pages,
                        totalItems |-> total_items,
                        hasNextPage |-> page < total_pages,
                        hasPreviousPage |-> page > 1]]

paginate_list(items, page, limit) ==
    LET total_items == Len(items)
        total_pages == TotalPages(total_items, limit)
        start_index == StartIndex(page, limit)
        end_index == start_index + limit
        paginated_items == PySlice(items, start_index, end_index)
    IN [items |-> paginated_items,
        pagination |-> [page |-> page,
                        limit |-> limit,
                        totalPages |-> total_pages,
                        totalItems |-> total_items,
                        hasNextPage |-> page < total_pages,
                        hasPreviousPage |-> page > 1]]

\* ------------------------------------------------------------ list shipments
\* A query parameter: absent, a decimal integer, or text that int() rejects
AbsentArg == [kind |-> "absent"]
IntArg(n) == [kind |-> "int", value |-> n]
TextArg == [kind |-> "text"]

\* int(request.args.get(name, default)) where it returns a value
ArgValue(arg, default) == IF arg.kind = "int" THEN arg.value ELSE default

v2_get_all_shipments(page_arg, limit_arg) ==
    LET req == [op |-> "LIST", id |-> None, is_json |-> FALSE, body |-> NullBody,
                page |-> page_arg, limit |-> limit_arg]
    IN
    /\ IF page_arg.kind = "text" \/ limit_arg.kind = "text" THEN
           \* int() raises ValueError, caught by the handler's except
           Serve(req, v2_error_response("SHIPMENTS_FETCH_ERROR", 500))
       ELSE
           Serve(req, v2_success_response(
                          paginate_list(created_shipments, ArgValue(page_arg, 1),
                                        ArgValue(limit_arg, 10)), 200))
    /\ UNCHANGED <<created_shipments, now>>

\* ---------------------------------------------------------------- get by id
\* The handler answers with a literal; it does not read created_shipments.
v2_get_shipment_by_id(shipment_id) ==
    /\ Serve([op |-> "GET", id |-> shipment_id, is_json |-> FALSE, body |-> NullBody],
             v2_success_response(
                 [k \in {"id", "trackingNumber", "status", "estimatedDelivery"} |->
                     CASE k = "id" -> shipment_id
                       [] k = "trackingNumber" -> "TRK-001"
                       [] k = "status" -> "in_transit"
                       [] OTHER -> "2024-02-01"], 200))
    /\ UNCHANGED <<created_shipments, now>>

\* ----------------------------------------------------------------- replace
\* valid_statuses without its last entry
valid_statuses_NoDelayed == <<"pending", "in_transit", "delivered", "cancelled">>

valid_statuses == <<"pending", "in_transit", "delivered", "cancelled", "delayed">>

InSeq(v, s) == \E i \in 1..Len(s) : s[i] = v

\* UpdateValidation without its status check
UpdateValidation_NoStatusCheck(data) ==
    IF Has(data, "carrier") /\ Falsy(data["carrier"]) THEN "Carrier cannot be empty"
    ELSE IF Has(data, "trackingNumber") /\ Falsy(data["trackingNumber"])
        THEN "Tracking number cannot be empty"
    ELSE None

\* The three checks of v2_update_shipment, in the order of the code; the code of the
\* first one that fails, None when all pass.
UpdateValidation(data) ==
    IF Has(data, "carrier") /\ Falsy(data["carrier"]) THEN "Carrier cannot be empty"
    ELSE IF Has(data, "trackingNumber") /\ Falsy(data["trackingNumber"])
        THEN "Tracking number cannot be empty"
    ELSE IF Has(data, "status") /\ ~InSeq(data["status"], valid_statuses)
        THEN "Invalid status"
    ELSE None

\* The four conditional assignments of v2_update_shipment and the timestamp
ApplyUpdate(shipment, data, t) ==
    LET s1 == IF Has(data, "carrier") THEN Put(shipment, "carrier", data["carrier"]) ELSE shipment
        s2 == IF Has(data, "trackingNumber") THEN Put(s1, "trackingNumber", data["trackingNumber"]) ELSE s1
        s3 == IF Has(data, "status") THEN Put(s2, "status", data["status"]) ELSE s2
        s4 == IF Has(data, "estimatedDeliveryDate")
              THEN Put(s3, "estimatedDelivery", data["estimatedDeliveryDate"]) ELSE s3
    IN Put(s4, "updatedAt", isoformat(t) \o "Z")

v2_update_shipment(shipment_id, is_json, body) ==
    LET req == [op |-> "PUT", id |-> shipment_id, is_json |-> is_json, body |-> body]
        idx == FindShipment(created_shipments, shipment_id)
    IN
    IF ~is_json THEN
        /\ Serve(req, v2_error_response("INVALID_CONTENT_TYPE", 400))
        /\ UNCHANGED <<created_shipments, now>>
    ELSE IF body.kind = "null" THEN
        /\ Serve(req, v2_error_response("MISSING_JSON_DATA", 400))
        /\ UNCHANGED <<created_shipments, now>>
    ELSE IF idx = 0 THEN
        /\ Serve(req, v2_error_response("SHIPMENT_NOT_FOUND", 404))
        /\ UNCHANGED <<created_shipments, now>>
    ELSE IF body.kind # "object" THEN
        \* 'carrier' in data raises TypeError, caught by the handler's except
        /\ Serve(req, v2_error_response("SHIPMENT_UPDATE_ERROR", 500))
        /\ UNCHANGED <<created_shipments, now>>
    ELSE IF UpdateValidation(body.obj) # None THEN
        /\ Serve(req, v2_error_response("VALIDATION_ERROR", 400))
        /\ UNCHANGED <<created_shipments, now>>
    ELSE
        LET shipment == ApplyUpdate(created_shipments[idx], body.obj, now) IN
        /\ created_shipments' = [created_shipments EXCEPT ![idx] = shipment]
        /\ Serve(req, v2_success_response(shipment, 200))
        /\ UNCHANGED now

\* ------------------------------------------------------------------- patch
\* updateable_fields with id among the fields a patch may write
updateable_fields_WithId ==
    <<"id", "status", "trackingNumber", "orderId", "items", "origin", "destination",
      "estimatedDelivery", "location">>

updateable_fields ==
    <<"status", "trackingNumber", "orderId", "items", "origin", "destination",
      "estimatedDelivery", "location">>

\* PatchedFields with the append outside the loop's if: every field of the list is named
PatchedFields_Unconditional(data) == updateable_fields

\* for field in updateable_fields: if field in data: ... updated_fields.append(field)
PatchedFields(data) == SelectSeq(updateable_fields, LAMBDA field : Has(data, field))

\* PatchLoop assigning data.get(field) for every field of the list, present or not
RECURSIVE PatchLoop_AssignAll(_, _, _)
PatchLoop_AssignAll(shipment, data, i) ==
    IF i > Len(updateable_fields) THEN shipment
    ELSE LET field == updateable_fields[i] IN
         PatchLoop_AssignAll(Put(shipment, field, Get(data, field)), data, i + 1)

\* The loop's assignments shipment[field] = data[field], from field number i on
RECURSIVE PatchLoop(_, _, _)
PatchLoop(shipment, data, i) ==
    IF i > Len(updateable_fields) THEN shipment
    ELSE LET field == updateable_fields[i] IN
         PatchLoop(IF Has(data, field) THEN Put(shipment, field, data[field]) ELSE shipment,
                   data, i + 1)

\* ApplyPatch stamping updatedAt only when the loop assigned a field
ApplyPatch_StampIfAssigned(shipment, data, t) ==
    IF PatchedFields(data) = <<>> THEN shipment
    ELSE Put(PatchLoop(shipment, data, 1), "updatedAt", isoformat(t) \o "Z")

ApplyPatch(shipment, data, t) ==
    Put(PatchLoop(shipment, data, 1), "updatedAt", isoformat(t) \o "Z")

\* v2_patch_shipment searching the list before it looks at the payload
v2_patch_shipment_LookupFirst(shipment_id, body) ==
    LET req == [op |-> "PATCH", id |-> shipment_id, is_json |-> TRUE, body |-> body]
        idx == FindShipment(created_shipments, shipment_id)
    IN
    IF idx = 0 THEN
        /\ Serve(req, v2_error_response("SHIPMENT_NOT_FOUND", 404))
        /\ UNCHANGED <<created_shipments, now>>
    ELSE IF NotData(body) THEN
        /\ Serve(req, v2_error_response("INVALID_DATA", 400))
        /\ UNCHANGED <<created_shipments, now>>
    ELSE IF body.kind # "object" THEN
        /\ Serve(req, v2_error_response("SHIPMENT_UPDATE_ERROR", 500))
        /\ UNCHANGED <<created_shipments, now>>
    ELSE
        LET shipment == ApplyPatch(created_shipments[idx], body.obj, now)
            result == Put(shipment, "updatedFields", PatchedFields(body.obj))
        IN
        /\ created_shipments' = [created_shipments EXCEPT ![idx] = shipment]
        /\ Serve(req, v2_success_response(result, 200))
        /\ UNCHANGED now

\* Requests with Content-Type application/json (get_json decodes the body).
v2_patch_shipment(shipment_id, body) ==
    LET req == [op |-> "PATCH", id |-> shipment_id, is_json |-> TRUE, body |-> body]
        idx == FindShipment(created_shipments, shipment_id)
    IN
    IF NotData(body) THEN
        /\ Serve(req, v2_error_response("INVALID_DATA", 400))
        /\ UNCHANGED <<created_shipments, now>>
    ELSE IF idx = 0 THEN
        /\ Serve(req, v2_error_response("SHIPMENT_NOT_FOUND", 404))
        /\ UNCHANGED <<created_shipments, now>>
    ELSE IF body.kind # "object" THEN
        \* field in data raises TypeError, caught by the handler's except
        /\ Serve(req, v2_error_response("SHIPMENT_UPDATE_ERROR", 500))
        /\ UNCHANGED <<created_shipments, now>>
    ELSE
        LET shipment == ApplyPatch(created_shipments[idx], body.obj, now)
            result == Put(shipment, "updatedFields", PatchedFields(body.obj))
        IN
        /\ created_shipments' = [created_shipments EXCEPT ![idx] = shipment]
        /\ Serve(req, v2_success_response(result, 200))
        /\ UNCHANGED now

\* ------------------------------------------------------------ human resources
\* The handlers of modules/human_resources/hr_routes.py, mounted by create_app under
\* /api/hr.  A JSON number is the record Number(n) and JSON null in a numeric field
\* is JsonNull; the other fields hold strings, None when the payload has no such key.
Number(n) == [kind |-> "number", value |-> n]
JsonNull == [kind |-> "null"]

\* An employee dict
Employee(id, employee_id, first_name, last_name, email, department, position, hire_date, salary, status) ==
    [k \in {"id", "employee_id", "first_name", "last_name", "email", "department",
            "position", "hire_date", "salary", "status"} |->
        CASE k = "id" -> id
          [] k = "employee_id" -> employee_id
          [] k = "first_name" -> first_name
          [] k = "last_name" -> last_name
          [] k = "email" -> email
          [] k = "department" -> department
          [] k = "position" -> position
          [] k = "hire_date" -> hire_date
          [] k = "salary" -> salary
          [] OTHER -> status]

\* The list mock_employees as the module defines it
InitialEmployees ==
    << Employee(1, "EMP001", "John", "Doe", "john.doe@company.com", "Engineering",
                "Senior Software Engineer", "2022-01-15", Number(95000), "active"),
       Employee(2, "EMP002", "Jane", "Smith", "jane.smith@company.com", "Marketing",
                "Marketing Manager", "2021-03-10", Number(75000), "active"),
       Employee(3, "EMP003", "Mike", "Johnson", "mike.johnson@company.com", "Finance",
                "Financial Analyst", "2023-06-01", Number(65000), "active") >>

\* The list mock_departments; no handler assigns to it
mock_departments ==
    << [id |-> 1, name |-> "Engineering",
        description |-> "Software development and technical operations",
        manager_id |-> 1, employee_count |-> 15],
       [id |-> 2, name |-> "Marketing",
        description |-> "Brand management and customer acquisition",
        manager_id |-> 2, employee_count |-> 8],
       [id |-> 3, name |-> "Finance",
        description |-> "Financial planning and accounting",
        manager_id |-> 3, employee_count |-> 5] >>

\* jsonify({"success": True, "data": ...}) with its status
hr_success(data, status_code) ==
    [success |-> TRUE, data |-> data, status_code |-> status_code]

\* jsonify({"success": False, "error": ...}) with its status
hr_error(error, status_code) ==
    [success |-> FALSE, error |-> error, status_code |-> status_code]

\* handle_error: the answer of create_app's handler for an exception no handler caught
handle_error == [error |-> "Internal Server Error", status_code |-> 500]

HrServe(req, resp) ==
    /\ served < MaxRequests
    /\ served' = served + 1
    /\ request' = req
    /\ response' = resp
    /\ UNCHANGED <<created_shipments, now, paginate_call, threads>>

HrRequest(op, id, body) == [op |-> op, id |-> id, is_json |-> TRUE, body |-> body]

get_employees ==
    /\ HrServe(HrRequest("HR_LIST", 0, NullBody),
               [success |-> TRUE, data |-> mock_employees, total |-> Len(mock_employees),
                status_code |-> 200])
    /\ UNCHANGED mock_employees

\* next((x for x in xs if x['id'] == id), None): the position of the first match, 0
\* for None
FirstWithId(xs, id) ==
    IF \E i \in 1..Len(xs) : xs[i]["id"] = id
    THEN CHOOSE i \in 1..Len(xs) :
            xs[i]["id"] = id /\ \A j \in 1..(i - 1) : xs[j]["id"] # id
    ELSE 0

get_employee(employee_id) ==
    LET req == HrRequest("HR_GET", employee_id, NullBody)
        i == FirstWithId(mock_employees, employee_id)
    IN /\ IF i = 0 THEN HrServe(req, hr_error("Employee not found", 404))
          ELSE HrServe(req, hr_success(mock_employees[i], 200))
       /\ UNCHANGED mock_employees

\* f"{n:03d}"
Format03d(n) ==
    IF n < 10 THEN "00" \o ToString(n)
    ELSE IF n < 100 THEN "0" \o ToString(n)
    ELSE ToString(n)

\* datetime.now().strftime('%Y-%m-%d'): the day the tick t falls in
strftime(t) == "day-" \o ToString(t \div (TicksPerSecond * 86400))

\* max([emp['id'] for emp in mock_employees], default=0)
RECURSIVE MaxId(_)
MaxId(emps) ==
    IF emps = <<>> THEN 0
    ELSE Max(emps[Len(emps)]["id"], MaxId(SubSeq(emps, 1, Len(emps) - 1)))

\* data.get(k, default)
GetOr(d, k, default) == IF k \in DOMAIN d THEN d[k] ELSE default

\* The dict create_employee builds from the payload data and the id new_id
NewEmployee(data, new_id, t) ==
    Employee(new_id,
             GetOr(data, "employee_id", "EMP" \o Format03d(new_id)),
             Get(data, "first_name"), Get(data, "last_name"), Get(data, "email"),
             Get(data, "department"), Get(data, "position"),
             GetOr(data, "hire_date", strftime(t)),
             GetOr(data, "salary", JsonNull),
             GetOr(data, "status", "active"))

create_employee(body) ==
    LET req == HrRequest("HR_CREATE", 0, body) IN
    IF NotData(body) THEN
        /\ HrServe(req, hr_error("No data provided", 400))
        /\ UNCHANGED mock_employees
    ELSE IF body.kind # "object" THEN
        \* data.get raises AttributeError, which no code of the handler catches
        /\ HrServe(req, handle_error)
        /\ UNCHANGED mock_employees
    ELSE
        LET new_id == MaxId(mock_employees) + 1
            new_employee == NewEmployee(body.obj, new_id, now)
        IN
        /\ mock_employees' = Append(mock_employees, new_employee)
        /\ HrServe(req, hr_success(new_employee, 201))

get_departments ==
    /\ HrServe(HrRequest("HR_DEPARTMENTS", 0, NullBody),
               [success |-> TRUE, data |-> mock_departments,
                total |-> Len(mock_departments), status_code |-> 200])
    /\ UNCHANGED mock_employees

get_department(department_id) ==
    LET req == HrRequest("HR_DEPARTMENT", department_id, NullBody)
        i == FirstWithId(mock_departments, department_id)
    IN /\ IF i = 0 THEN HrServe(req, hr_error("Department not found", 404))
          ELSE HrServe(req, hr_success(mock_departments[i], 200))
       /\ UNCHANGED mock_employees

get_department_employees(department_id) ==
    LET req == HrRequest("HR_DEPARTMENT_EMPLOYEES", department_id, NullBody)
        i == FirstWithId(mock_departments, department_id)
    IN /\ IF i = 0 THEN HrServe(req, hr_error("Department not found", 404))
          ELSE LET department_employees ==
                       SelectSeq(mock_employees,
                                 LAMBDA emp : emp["department"] = mock_departments[i].name)
               IN HrServe(req, [success |-> TRUE, data |-> department_employees,
                                department |-> mock_departments[i].name,
                                total |-> Len(department_employees),
                                status_code |-> 200])
       /\ UNCHANGED mock_employees

\* sum([emp['salary'] for emp in emps]), adding from 0 left to right: ok is FALSE when
\* an addend is no number (0 + None raises TypeError)
RECURSIVE SumSalaries(_)
SumSalaries(emps) ==
    IF emps = <<>> THEN [ok |-> TRUE, value |-> 0]
    ELSE LET before == SumSalaries(SubSeq(emps, 1, Len(emps) - 1))
             salary == emps[Len(emps)]["salary"]
         IN IF before.ok /\ salary.kind = "number"
            THEN [ok |-> TRUE, value |-> before.value + salary.value]
            ELSE [ok |-> FALSE, value |-> 0]

\* The quotient a / b of Python's true division, kept as the pair it is made of
Quotient(a, b) == [dividend |-> a, divisor |-> b]

get_hr_stats ==
    LET req == HrRequest("HR_STATS", 0, NullBody)
        active_employees ==
            Len(SelectSeq(mock_employees, LAMBDA emp : emp["status"] = "active"))
        total == SumSalaries(mock_employees)
    IN /\ IF mock_employees # <<>> /\ ~total.ok THEN
              \* TypeError, which no code of the handler catches
              HrServe(req, handle_error)
          ELSE
              HrServe(req, hr_success(
                  [total_employees |-> Len(mock_employees),
                   active_employees |-> active_employees,
                   total_departments |-> Len(mock_departments),
                   average_salary |-> IF mock_employees # <<>>
                                      THEN Quotient(total.value, Len(mock_employees))
                                      ELSE Quotient(0, 1)], 200))
       /\ UNCHANGED mock_employees

\* The payloads the HR callers send
HrCreateObjects ==
    { [k \in {"first_name", "department", "salary", "status"} |->
          CASE k = "first_name" -> "Ann"
            [] k = "department" -> "Finance"
            [] k = "salary" -> Number(50000)
            [] OTHER -> "inactive"],
      One("first_name", "Bob") }

HrCreateBodies ==
    {NullBody, NumberBody, ZeroBody}
        \cup {ObjectBody(d) : d \in HrCreateObjects \cup {EmptyDict}}

\* An id no department and no employee has
UnknownNumber == 99

\* The ids a caller puts in an employee URL: the first and the last of the list and
\* one more
EmployeeIds ==
    {mock_employees[1]["id"], mock_employees[Len(mock_employees)]["id"], UnknownNumber}

DepartmentIds == {mock_departments[1].id, UnknownNumber}

\* ------------------------------------------------ the app's own HR view functions
\* create_app gives /api/hr/employees (POST, GET) and /api/hr/departments (GET) view
\* functions of its own before it mounts the blueprint under /api/hr, and the first
\* rule registered for a URL is the one requests are dispatched to.  They answer with
\* the bare JSON value, here the field data, and have no success key.  mock_data is
\* None (the import of services.mock_data fails and the code falls back).
app_create_employee(body) ==
    LET req == HrRequest("APP_HR_CREATE", 0, body) IN
    /\ IF body.kind # "object" THEN
           \* data.get raises AttributeError, which no code of the handler catches
           HrServe(req, handle_error)
       ELSE
           HrServe(req,
               [data |-> [k \in {"id", "firstName", "lastName", "email", "departmentId",
                                 "position", "salary", "hireDate", "status"} |->
                             CASE k = "id" -> "emp-" \o timestamp(now)
                               [] k = "status" -> "active"
                               [] OTHER -> Get(body.obj, k)],
                status_code |-> 201])
    /\ UNCHANGED mock_employees

get_all_employees ==
    /\ HrServe(HrRequest("APP_HR_LIST", 0, NullBody), [data |-> <<>>, status_code |-> 200])
    /\ UNCHANGED mock_employees

get_all_departments ==
    /\ HrServe(HrRequest("APP_HR_DEPARTMENTS", 0, NullBody),
               [data |-> <<>>, status_code |-> 200])
    /\ UNCHANGED mock_employees

\* ------------------------------------------------------------------- clock
\* Time passes between requests.
Tick ==
    /\ now < MaxClock
    /\ now' = now + 1
    /\ UNCHANGED <<created_shipments, served, request, response, paginate_call,
                   mock_employees, threads>>

\* ----------------------------------------------------------- specification
\* No call of paginate_list on its own
NoCall == [items |-> <<>>, page |-> 1, limit |-> 10, done |-> FALSE]

NoRequest == [op |-> "none", id |-> None, is_json |-> FALSE, body |-> NullBody]

\* No request in flight beside the one being served
NoThreads == <<>>

Init ==
    /\ created_shipments = <<>>
    /\ now = 0
    /\ served = 0
    /\ request = NoRequest
    /\ response = v2_error_response("none", 0)
    /\ mock_employees = InitialEmployees
    /\ threads = NoThreads
    /\ paginate_call = NoCall

\* A request that is not JSON is sent with one body: the handlers do not read it.
CreateShipment ==
    \/ \E body \in CreateBodies, t2 \in now..MaxClock :
           v2_create_shipment(TRUE, body, now, t2)
    \/ v2_create_shipment(FALSE, NullBody, now, now)

GetShipmentById == \E id \in UrlIds : v2_get_shipment_by_id(id)

UpdateShipment ==
    \E id \in UrlIds :
        \/ \E body \in UpdateBodies : v2_update_shipment(id, TRUE, body)
        \/ v2_update_shipment(id, FALSE, NullBody)

PatchShipment == \E id \in UrlIds, body \in PatchBodies : v2_patch_shipment(id, body)

\* The query strings the callers send: none, page and limit given, one that is no number
ListQueries ==
    { <<AbsentArg, AbsentArg>>, <<IntArg(1), IntArg(1)>>, <<IntArg(2), IntArg(1)>>,
      <<TextArg, AbsentArg>>, <<AbsentArg, TextArg>> }

GetAllShipments == \E q \in ListQueries : v2_get_all_shipments(q[1], q[2])

Next ==
    \/ CreateShipment
    \/ GetAllShipments
    \/ GetShipmentById
    \/ UpdateShipment
    \/ PatchShipment
    \/ Tick

Spec == Init /\ [][Next]_vars

\* ------------------------------------------------- the HR blueprint on its own
\* The blueprint's view functions as the blueprint routes requests to them where it
\* is mounted without other rules for its URLs.
CreateEmployee == \E body \in HrCreateBodies : create_employee(body)

GetEmployees == get_employees

GetEmployee == \E id \in EmployeeIds : get_employee(id)

GetDepartments == get_departments

GetDepartment == \E id \in DepartmentIds : get_department(id)

GetDepartmentEmployees == \E id \in DepartmentIds : get_department_employees(id)

GetHrStats == get_hr_stats

HrNext ==
    \/ CreateEmployee
    \/ GetEmployees
    \/ GetEmployee
    \/ GetDepartments
    \/ GetDepartment
    \/ GetDepartmentEmployees
    \/ GetHrStats

HrSpec == Init /\ [][HrNext]_vars

\* --------------------------------------------- the view functions of the program
\* The app's own view functions for POST /api/hr/employees, GET /api/hr/employees and
\* GET /api/hr/departments: the ones a request to the application with these methods
\* and URLs reaches.
AppCreateEmployee == \E body \in HrCreateBodies : app_create_employee(body)

AppGetAllEmployees == get_all_employees

AppGetAllDepartments == get_all_departments

AppHrNext ==
    \/ AppCreateEmployee
    \/ AppGetAllEmployees
    \/ AppGetAllDepartments

\* The view functions of app.py and of hr_routes.py called one after another in one
\* process, on the module-level lists the two modules keep: the shipment handlers and
\* the app's own HR view functions as requests to the application reach them, and the
\* blueprint's view functions called as HrSpec calls them, through the blueprint's own
\* rules.  This is not the application's routing: a request to the application never
\* reaches the blueprint's create_employee, get_employees or get_departments, whose
\* rules the app's own equal rules, registered first, take precedence over.
HandlersNext ==
    \/ Next
    \/ AppHrNext
    \/ HrNext

HandlersSpec == Init /\ [][HandlersNext]_vars

\* ------------------------------------------------ shipment requests in flight at once
\* app.run serves each request on a thread of its own and the handlers take no lock:
\* one create, one replace, one patch and one list request arrive together and their
\* handlers are interleaved between any two accesses to created_shipments or to a
\* record of it.  The replace and the patch are aimed at the identifier the create
\* gives; all four carry a JSON object (the list, a query string).
ConcCreateObject ==
    [k \in {"carrier", "origin", "destination"} |->
        CASE k = "carrier" -> "FedEx" [] k = "origin" -> "NY" [] OTHER -> "LA"]

ConcUpdateObjects ==
    {Two("trackingNumber", "TRK-A", "status", "delivered"), One("carrier", "UPS")}

ConcPatchObjects ==
    {Two("status", "in_transit", "trackingNumber", "TRK-B"), One("location", "Hub")}

ConcListQueries == {<<AbsentArg, AbsentArg>>, <<IntArg(1), IntArg(1)>>}

\* The identifier v2_create_shipment gives at tick t
ConcId(t) == "ship-" \o timestamp(t)

ConcInit ==
    /\ created_shipments = <<>>
    /\ now = 0
    /\ served = 0
    /\ request = NoRequest
    /\ response = v2_error_response("none", 0)
    /\ paginate_call = NoCall
    /\ mock_employees = InitialEmployees
    /\ \E u \in ConcUpdateObjects, p \in ConcPatchObjects, q \in ConcListQueries :
          threads = [create |-> [pc |-> "start", data |-> ConcCreateObject],
                     put |-> [pc |-> "start", id |-> ConcId(0), data |-> u],
                     patch |-> [pc |-> "start", id |-> ConcId(0), data |-> p],
                     list |-> [pc |-> "start", page |-> q[1], limit |-> q[2]]]

\* What a step of a request in flight leaves alone
ConcFrame == UNCHANGED <<now, served, request, response, paginate_call, mock_employees>>

\* v2_create_shipment up to the dict it builds
CreateBuild ==
    /\ threads.create.pc = "start"
    /\ threads' = [threads EXCEPT !.create =
                      [pc |-> "append", data |-> @.data,
                       shipment |-> NewShipment(@.data, now, now)]]
    /\ UNCHANGED created_shipments
    /\ ConcFrame

\* created_shipments.append(shipment): the list holds the dict itself, shipment is
\* what the dict held when it was built
CreateAppend ==
    /\ threads.create.pc = "append"
    /\ created_shipments' = Append(created_shipments, threads.create.shipment)
    /\ threads' = [threads EXCEPT !.create =
                      [pc |-> "respond", data |-> @.data, shipment |-> @.shipment,
                       shipment_index |-> Len(created_shipments) + 1]]
    /\ ConcFrame

\* The response, serialised from the dict as it is now
CreateRespond ==
    /\ threads.create.pc = "respond"
    /\ threads' = [threads EXCEPT !.create =
                      [pc |-> "done", data |-> @.data, shipment |-> @.shipment,
                       response |->
                           v2_success_response(created_shipments[@.shipment_index], 201)]]
    /\ UNCHANGED created_shipments
    /\ ConcFrame

\* The assignments of v2_update_shipment in the order the code makes them, each a
\* pair <<key, value>>
PutWrites(data, t) ==
    (IF Has(data, "carrier") THEN <<(<<"carrier", data["carrier"]>>)>> ELSE <<>>)
    \o (IF Has(data, "trackingNumber")
        THEN <<(<<"trackingNumber", data["trackingNumber"]>>)>> ELSE <<>>)
    \o (IF Has(data, "status") THEN <<(<<"status", data["status"]>>)>> ELSE <<>>)
    \o (IF Has(data, "estimatedDeliveryDate")
        THEN <<(<<"estimatedDelivery", data["estimatedDeliveryDate"]>>)>> ELSE <<>>)
    \o <<(<<"updatedAt", isoformat(t) \o "Z">>)>>

\* The assignments of v2_patch_shipment in the order the code makes them
PatchWrites(data, t) ==
    [i \in 1..Len(PatchedFields(data)) |->
        <<PatchedFields(data)[i], data[PatchedFields(data)[i]]>>]
    \o <<(<<"updatedAt", isoformat(t) \o "Z">>)>>

\* v2_update_shipment from its search of the list to the end of its validation
PutFind ==
    /\ threads.put.pc = "start"
    /\ LET idx == FindShipment(created_shipments, threads.put.id)
           data == threads.put.data
       IN threads' = [threads EXCEPT !.put =
              IF idx = 0 THEN
                  [pc |-> "done", id |-> @.id, data |-> data,
                   response |-> v2_error_response("SHIPMENT_NOT_FOUND", 404)]
              ELSE IF UpdateValidation(data) # None THEN
                  [pc |-> "done", id |-> @.id, data |-> data,
                   response |-> v2_error_response("VALIDATION_ERROR", 400)]
              ELSE
                  [pc |-> "write", id |-> @.id, data |-> data, shipment_index |-> idx,
                   writes |-> PutWrites(data, now)]]
    /\ UNCHANGED created_shipments
    /\ ConcFrame

\* One assignment shipment[key] = value of the thread named t
WriteField(t) ==
    /\ threads[t].pc = "write"
    /\ threads[t].writes # <<>>
    /\ LET w == Head(threads[t].writes) IN
       created_shipments' =
           [created_shipments EXCEPT ![threads[t].shipment_index] = Put(@, w[1], w[2])]
    /\ threads' = [threads EXCEPT ![t].writes = Tail(@)]
    /\ ConcFrame

PutWrite == WriteField("put")

\* created_shipments[shipment_index] = shipment, which puts the same dict where it
\* is, and the response, serialised from the dict as it is now
PutRespond ==
    /\ threads.put.pc = "write"
    /\ threads.put.writes = <<>>
    /\ threads' = [threads EXCEPT !.put =
                      [pc |-> "done", id |-> @.id, data |-> @.data,
                       response |->
                           v2_success_response(created_shipments[@.shipment_index], 200)]]
    /\ UNCHANGED created_shipments
    /\ ConcFrame

\* v2_patch_shipment from its check of the payload to the end of its search
PatchFind ==
    /\ threads.patch.pc = "start"
    /\ LET idx == FindShipment(created_shipments, threads.patch.id)
           data == threads.patch.data
       IN threads' = [threads EXCEPT !.patch =
              IF DOMAIN data = {} THEN
                  [pc |-> "done", id |-> @.id, data |-> data,
                   response |-> v2_error_response("INVALID_DATA", 400)]
              ELSE IF idx = 0 THEN
                  [pc |-> "done", id |-> @.id, data |-> data,
                   response |-> v2_error_response("SHIPMENT_NOT_FOUND", 404)]
              ELSE
                  [pc |-> "write", id |-> @.id, data |-> data, shipment_index |-> idx,
                   writes |-> PatchWrites(data, now)]]
    /\ UNCHANGED created_shipments
    /\ ConcFrame

PatchWrite == WriteField("patch")

\* result = shipment.copy() with updatedFields, and the response
PatchRespond ==
    /\ threads.patch.pc = "write"
    /\ threads.patch.writes = <<>>
    /\ threads' = [threads EXCEPT !.patch =
                      [pc |-> "done", id |-> @.id, data |-> @.data,
                       response |->
                           v2_success_response(
                               Put(created_shipments[@.shipment_index], "updatedFields",
                                   PatchedFields(@.data)), 200)]]
    /\ UNCHANGED created_shipments
    /\ ConcFrame

\* v2_get_all_shipments up to total_items = len(items) of paginate_list
ListLen ==
    /\ threads.list.pc = "start"
    /\ threads' = [threads EXCEPT !.list =
                      [pc |-> "slice", page |-> ArgValue(@.page, 1),
                       limit |-> ArgValue(@.limit, 10),
                       total_items |-> Len(created_shipments)]]
    /\ UNCHANGED created_shipments
    /\ ConcFrame

\* The positions 1..n in order
Positions(n) == [i \in 1..n |-> i]

\* paginated_items = items[start_index:end_index]: the new list holds the dicts of
\* the store themselves, named here by their positions in it
ListSlice ==
    /\ threads.list.pc = "slice"
    /\ LET start_index == StartIndex(threads.list.page, threads.list.limit)
           end_index == start_index + threads.list.limit
       IN threads' = [threads EXCEPT !.list =
              [pc |-> "respond", page |-> @.page, limit |-> @.limit,
               total_items |-> @.total_items,
               paginated_items |->
                   PySlice(Positions(Len(created_shipments)), start_index, end_index)]]
    /\ UNCHANGED created_shipments
    /\ ConcFrame

\* The rest of paginate_list and the response, serialised from the dicts as they are
\* now
ListRespond ==
    /\ threads.list.pc = "respond"
    /\ LET l == threads.list
           total_pages == TotalPages(l.total_items, l.limit)
       IN threads' = [threads EXCEPT !.list =
              [pc |-> "done", page |-> l.page, limit |-> l.limit,
               response |-> v2_success_response(
                   [items |-> [i \in 1..Len(l.paginated_items) |->
                                   created_shipments[l.paginated_items[i]]],
                    pagination |-> [page |-> l.page,
                                    limit |-> l.limit,
                                    totalPages |-> total_pages,
                                    totalItems |-> l.total_items,
                                    hasNextPage |-> l.page < total_pages,
                                    hasPreviousPage |-> l.page > 1]], 200)]]
    /\ UNCHANGED created_shipments
    /\ ConcFrame

ConcNext ==
    \/ CreateBuild
    \/ CreateAppend
    \/ CreateRespond
    \/ PutFind
    \/ PutWrite
    \/ PutRespond
    \/ PatchFind
    \/ PatchWrite
    \/ PatchRespond
    \/ ListLen
    \/ ListSlice
    \/ ListRespond

ConcSpec == ConcInit /\ [][ConcNext]_vars

\* ---------------------------------------------- employee requests in flight at once
\* The blueprint on its own: two create_employee requests and one get_employee
\* request arrive together; the creates carry JSON objects that are not empty.
HrWorkers == {"w1", "w2"}

\* The ids the reader asks for: the next two ids the list can get
HrReaderIds == {MaxId(InitialEmployees) + 1, MaxId(InitialEmployees) + 2}

HrConcInit ==
    /\ created_shipments = <<>>
    /\ now = 0
    /\ served = 0
    /\ request = NoRequest
    /\ response = v2_error_response("none", 0)
    /\ paginate_call = NoCall
    /\ mock_employees = InitialEmployees
    /\ \E d1 \in HrCreateObjects, d2 \in HrCreateObjects, id \in HrReaderIds :
          threads = [w1 |-> [pc |-> "start", data |-> d1],
                     w2 |-> [pc |-> "start", data |-> d2],
                     reader |-> [pc |-> "start", employee_id |-> id]]

HrConcFrame == UNCHANGED <<created_shipments, now, served, request, response, paginate_call>>

\* create_employee up to new_id = max(...) + 1
HrCreateNewId(w) ==
    /\ threads[w].pc = "start"
    /\ threads' = [threads EXCEPT ![w] =
                      [pc |-> "append", data |-> @.data,
                       new_id |-> MaxId(mock_employees) + 1]]
    /\ UNCHANGED mock_employees
    /\ HrConcFrame

\* new_employee = {...}, mock_employees.append(new_employee) and the response
HrCreateAppend(w) ==
    /\ threads[w].pc = "append"
    /\ LET new_employee == NewEmployee(threads[w].data, threads[w].new_id, now) IN
       /\ mock_employees' = Append(mock_employees, new_employee)
       /\ threads' = [threads EXCEPT ![w] =
                         [pc |-> "done", data |-> @.data, new_id |-> @.new_id,
                          response |-> hr_success(new_employee, 201)]]
    /\ HrConcFrame

\* get_employee, whose one reading of the list is the search
HrRead ==
    /\ threads.reader.pc = "start"
    /\ LET i == FirstWithId(mock_employees, threads.reader.employee_id) IN
       threads' = [threads EXCEPT !.reader =
                      [pc |-> "done", employee_id |-> @.employee_id,
                       response |-> IF i = 0 THEN hr_error("Employee not found", 404)
                                    ELSE hr_success(mock_employees[i], 200)]]
    /\ UNCHANGED mock_employees
    /\ HrConcFrame

HrConcNext ==
    \/ \E w \in HrWorkers : HrCreateNewId(w)
    \/ \E w \in HrWorkers : HrCreateAppend(w)
    \/ HrRead

HrConcSpec == HrConcInit /\ [][HrConcNext]_vars

\* ------------------------------------------- paginate_list called on its own
\* The handlers of the other modules hand paginate_list their own lists; the elements
\* are opaque to it.
RECURSIVE ListsUpTo(_)
ListsUpTo(n) ==
    IF n = 0 THEN {<<>>}
    ELSE LET shorter == ListsUpTo(n - 1)
         IN shorter \cup {Append(l, e) : l \in {x \in shorter : Len(x) = n - 1}, e \in {"a", "b"}}

PageInit ==
    /\ created_shipments = <<>>
    /\ now = 0
    /\ served = 0
    /\ request = NoRequest
    /\ response = v2_error_response("none", 0)
    /\ mock_employees = InitialEmployees
    /\ threads = NoThreads
    /\ \E items \in ListsUpTo(MaxLen), page \in (-MaxPage)..MaxPage, limit \in (-1)..MaxLimit :
          paginate_call = [items |-> items, page |-> page, limit |-> limit, done |-> FALSE,
                           calls |-> 0]

\* Paginate cutting the caller's list down to the page (del items[...]) instead of
\* slicing a copy
Paginate_InPlace ==
    /\ paginate_call.calls < MaxCalls
    /\ paginate_call' =
          [items |-> paginate_list(paginate_call.items, paginate_call.page,
                                   paginate_call.limit).items,
           page |-> paginate_call.page,
           limit |-> paginate_call.limit, done |-> TRUE,
           calls |-> paginate_call.calls + 1,
           result |-> paginate_list(paginate_call.items, paginate_call.page,
                                    paginate_call.limit)]
    /\ UNCHANGED <<created_shipments, now, served, request, response,
                   mock_employees, threads>>

\* The caller calls paginate_list with its list, page and limit, the first time or
\* again; items is the caller's list object, which the function only measures and
\* slices.
Paginate ==
    /\ paginate_call.calls < MaxCalls
    /\ paginate_call' =
          [items |-> paginate_call.items, page |-> paginate_call.page,
           limit |-> paginate_call.limit, done |-> TRUE,
           calls |-> paginate_call.calls + 1,
           result |-> paginate_list(paginate_call.items, paginate_call.page,
                                    paginate_call.limit)]
    /\ UNCHANGED <<created_shipments, now, served, request, response,
                   mock_employees, threads>>

\* Calls of paginate_list, and time passing before and between them
PageNext == Paginate \/ Tick

PageSpec == PageInit /\ [][PageNext]_vars

\* ------------------------------------------- paginate_list called page by page
\* A caller walks one list with one limit >= 1: page 1, page 2, ... and one page past
\* the last; fetched holds the results in the order of the calls.
WalkInit ==
    /\ created_shipments = <<>>
    /\ now = 0
    /\ served = 0
    /\ request = NoRequest
    /\ response = v2_error_response("none", 0)
    /\ mock_employees = InitialEmployees
    /\ threads = NoThreads
    /\ \E items \in ListsUpTo(MaxLen), limit \in 1..MaxLimit :
          paginate_call = [items |-> items, page |-> 1, limit |-> limit, done |-> FALSE,
                           fetched |-> <<>>]

FetchPage ==
    /\ paginate_call.page <= MaxLen + 1
    /\ paginate_call' =
          [paginate_call EXCEPT
              !.page = @ + 1,
              !.fetched = Append(@, paginate_list(paginate_call.items, paginate_call.page,
                                                  paginate_call.limit))]
    /\ UNCHANGED <<created_shipments, now, served, request, response,
                   mock_employees, threads>>

WalkNext == FetchPage

WalkSpec == WalkInit /\ [][WalkNext]_vars

\* ------------------------------------------------ replacing the status only
\* Callers that create shipments and then replace nothing but the status, with every
\* status the handler accepts and one it rejects.
StatusObjects ==
    {One("status", t) :
        t \in {"pending", "in_transit", "delivered", "cancelled", "delayed", "lost"}}

StatusCreate == \E d \in CreateObjects : v2_create_shipment(TRUE, ObjectBody(d), now, now)

StatusReplace ==
    \E id \in UrlIds, d \in StatusObjects : v2_update_shipment(id, TRUE, ObjectBody(d))

StatusNext == StatusCreate \/ StatusReplace

StatusSpec == Init /\ [][StatusNext]_vars


\* ==================================================================== claims
\* A step in which a handler served a request (Tick serves none)
Served == served' = served + 1

\* The positions of the records with identifier id
Holding(store, id) == {i \in 1..Len(store) : store[i]["id"] = id}

StatusEnum == {"pending", "in_transit", "delivered", "cancelled", "delayed"}

\* ------------------------------------------------------------------------ C1
\* C1: in every reachable state the status of every stored record is one of pending,
\* in_transit, delivered, cancelled, delayed.
C1_StoredStatusInEnum ==
    \A i \in 1..Len(created_shipments) : created_shipments[i]["status"] \in StatusEnum

\* ------------------------------------------------------------------------ C2
\* C2: no two records of the store have the same id.
C2_IdsDistinct ==
    \A i, j \in 1..Len(created_shipments) :
        i # j => created_shipments[i]["id"] # created_shipments[j]["id"]

\* ------------------------------------------------------------------------ C3
\* The payload fails one of the three validations of replace
C3_FailsValidation(data) ==
    \/ "carrier" \in DOMAIN data /\ data["carrier"] = ""
    \/ "trackingNumber" \in DOMAIN data /\ data["trackingNumber"] = ""
    \/ "status" \in DOMAIN data /\ data["status"] \notin StatusEnum

C3_RejectedStep ==
    /\ Served
    /\ request'.op = "PUT"
    /\ request'.is_json
    /\ request'.body.kind = "object"
    /\ Holding(created_shipments, request'.id) # {}
    /\ C3_FailsValidation(request'.body.obj)

\* C3: a replace on an existing shipment whose payload fails a validation returns
\* ValidationError (400) and leaves the whole store as it was: no valid field of the
\* payload is applied and updatedAt is not stamped.
C3_RejectedReplaceChangesNothing ==
    [][C3_RejectedStep =>
          /\ ~response'.success
          /\ response'.error = "VALIDATION_ERROR"
          /\ response'.status_code = 400
          /\ created_shipments' = created_shipments]_vars

\* A replace carrying a valid carrier and an invalid status was rejected, and the
\* record kept its carrier and has no updatedAt.
C3_Witness ==
    /\ request.op = "PUT"
    /\ request.is_json
    /\ request.body = ObjectBody(Two("carrier", "UPS", "status", "lost"))
    /\ ~response.success
    /\ response.error = "VALIDATION_ERROR"
    /\ \E i \in Holding(created_shipments, request.id) :
          /\ created_shipments[i]["carrier"] = "FedEx"
          /\ "updatedAt" \notin DOMAIN created_shipments[i]

\* ------------------------------------------------------------------------ C4
C4_PatchStep ==
    /\ Served
    /\ request'.op = "PATCH"
    /\ response'.success

\* Record after differs from record before at most in the fields named in touched
C4_SameOutside(before, after, touched) ==
    /\ \A k \in DOMAIN before \ touched : k \in DOMAIN after /\ after[k] = before[k]
    /\ \A k \in DOMAIN after \ touched : k \in DOMAIN before

\* C4: a successful patch changes, in one record, only fields present in the payload
\* and updatedAt; every other record keeps its value; patching {status: delivered}
\* sets status to delivered and leaves carrier unchanged.
C4_PatchIsFieldLocal ==
    [][C4_PatchStep =>
          /\ Len(created_shipments') = Len(created_shipments)
          /\ \E i \in Holding(created_shipments, request'.id) :
                /\ \A j \in 1..Len(created_shipments) :
                      j # i => created_shipments'[j] = created_shipments[j]
                /\ C4_SameOutside(created_shipments[i], created_shipments'[i],
                                  DOMAIN request'.body.obj \cup {"updatedAt"})
                /\ request'.body.obj = One("status", "delivered") =>
                      /\ created_shipments'[i]["status"] = "delivered"
                      /\ created_shipments'[i]["carrier"] = created_shipments[i]["carrier"]]_vars

\* A patch {status: delivered} succeeded on a FedEx shipment in a store of two records.
C4_Witness ==
    /\ request.op = "PATCH"
    /\ response.success
    /\ request.body = ObjectBody(One("status", "delivered"))
    /\ Len(created_shipments) = 2
    /\ response.data["status"] = "delivered"
    /\ response.data["carrier"] = "FedEx"
    /\ response.data["updatedFields"] = <<"status">>

\* ------------------------------------------------------------------------ C5
\* C5: get(id) returns the record as currently stored for an id the store created, and
\* signals NotFound (404) for an id that was never created.
C5_GetIsLookup ==
    request.op = "GET" =>
        IF Holding(created_shipments, request.id) # {}
        THEN /\ response.success
             /\ \E i \in Holding(created_shipments, request.id) :
                   response.data = created_shipments[i]
        ELSE /\ ~response.success
             /\ response.status_code = 404

\* ------------------------------------------------------------------------ C6
\* A replace with a non-null JSON payload, or a patch with a non-empty payload
C6_CarriesPayload(req) ==
    \/ req.op = "PUT" /\ req.is_json /\ req.body.kind # "null"
    \/ /\ req.op = "PATCH"
       /\ \/ req.body.kind = "number"
          \/ req.body.kind = "object" /\ DOMAIN req.body.obj # {}

\* C6: replace and patch with an id that no stored record has return NotFound (404) and
\* leave the store unchanged; replace checks existence before it validates fields.
C6_UnknownIdIsNotFound ==
    [][(/\ Served
        /\ C6_CarriesPayload(request')
        /\ Holding(created_shipments, request'.id) = {}) =>
          /\ ~response'.success
          /\ response'.error = "SHIPMENT_NOT_FOUND"
          /\ response'.status_code = 404
          /\ created_shipments' = created_shipments]_vars

\* A replace with an invalid status for an unknown id was answered NotFound while the
\* store held records.
C6_Witness ==
    /\ request.op = "PUT"
    /\ request.is_json
    /\ request.id = UnknownId
    /\ request.body = ObjectBody(One("status", "lost"))
    /\ Len(created_shipments) > 0
    /\ Holding(created_shipments, request.id) = {}
    /\ response.status_code = 404

\* ------------------------------------------------------------------------ C7
C7_EchoedFields ==
    {"orderId", "carrier", "origin", "destination", "shipDate", "estimatedDelivery"}

C7_Generated(v, prefix) ==
    /\ v \notin {"", None}
    /\ \E t \in 0..MaxClock : v = prefix \o ToString(t \div TicksPerSecond)
                              \/ v = prefix \o ToString(t \div TicksPerSecond) \o "."
                                            \o ToString(t % TicksPerSecond)

\* C7: for every create payload that is a JSON object, also one carrying status, id or
\* trackingNumber, the created shipment has status pending, a non-empty generated id and
\* trackingNumber, the payload's orderId, carrier, origin, destination, shipDate and
\* estimatedDelivery (None where the payload has none), and no updatedAt.
C7_CreatedRecord ==
    (request.op = "POST" /\ request.is_json /\ request.body.kind = "object") =>
        /\ response.success
        /\ response.status_code = 201
        /\ Len(created_shipments) > 0
        /\ response.data = created_shipments[Len(created_shipments)]
        /\ response.data["status"] = "pending"
        /\ C7_Generated(response.data["id"], "ship-")
        /\ C7_Generated(response.data["trackingNumber"], "TRK-")
        /\ \A k \in C7_EchoedFields :
              response.data[k] = IF k \in DOMAIN request.body.obj
                                 THEN request.body.obj[k] ELSE None
        /\ "updatedAt" \notin DOMAIN response.data

\* A create whose payload carried status, id and trackingNumber of its own succeeded.
C7_Witness ==
    /\ request.op = "POST"
    /\ request.is_json
    /\ request.body.kind = "object"
    /\ {"status", "id", "trackingNumber"} \subseteq DOMAIN request.body.obj
    /\ request.body.obj["status"] = "delivered"
    /\ response.success
    /\ response.data["orderId"] = "ORD-1"

\* ------------------------------------------------------------------------ C8
\* C8: no two records of the store have the same trackingNumber.
C8_TrackingNumbersDistinct ==
    \A i, j \in 1..Len(created_shipments) :
        i # j => created_shipments[i]["trackingNumber"] # created_shipments[j]["trackingNumber"]

\* ------------------------------------------------------------------------ C9
C9_ReplaceFields == {"carrier", "trackingNumber", "status", "estimatedDelivery"}

\* C9: after a successful replace, each of carrier, trackingNumber, status and
\* estimatedDelivery that the payload contains has the payload's value in the stored
\* record.
C9_ReplaceStoresSuppliedFields ==
    (request.op = "PUT" /\ response.success) =>
        \E i \in Holding(created_shipments, request.id) :
            \A k \in C9_ReplaceFields \cap DOMAIN request.body.obj :
                created_shipments[i][k] = request.body.obj[k]

\* ----------------------------------------------------------------------- C10
C10_Listed(resp) == {resp.data["updatedFields"][n] : n \in 1..Len(resp.data["updatedFields"])}

C10_Changed(before, after, k) ==
    IF k \in DOMAIN before /\ k \in DOMAIN after THEN before[k] # after[k]
    ELSE k \in DOMAIN before \/ k \in DOMAIN after

C10_FieldNames ==
    {"id", "trackingNumber", "orderId", "carrier", "origin", "destination", "shipDate",
     "estimatedDelivery", "status", "items", "location"}

\* C10 as claimed: the updatedFields of a successful patch names a field if and only if
\* the field's stored value after the patch differs from its value before.
C10_ListedIffChanged ==
    [][C4_PatchStep =>
          \E i \in Holding(created_shipments, request'.id) :
              \A k \in C10_FieldNames :
                  k \in C10_Listed(response') <=>
                      C10_Changed(created_shipments[i], created_shipments'[i], k)]_vars

C10_AllowList ==
    {"status", "trackingNumber", "orderId", "items", "origin", "destination",
     "estimatedDelivery", "location"}

\* C10 amended: the updatedFields of a successful patch names, once each, exactly the
\* fields of the payload that are on the allow-list, and the stored record holds the
\* payload's value for each of them, whether or not that value is a new one; a supplied
\* field outside the allow-list is not listed.
C10_ListedIffSuppliedAndAllowed ==
    (request.op = "PATCH" /\ response.success) =>
        /\ C10_Listed(response) = DOMAIN request.body.obj \cap C10_AllowList
        /\ Len(response.data["updatedFields"]) = Cardinality(C10_Listed(response))
        /\ \E i \in Holding(created_shipments, request.id) :
              \A k \in C10_Listed(response) : created_shipments[i][k] = request.body.obj[k]

\* A patch supplying id (not on the allow-list) and location succeeded and listed
\* location alone.
C10_Witness ==
    /\ request.op = "PATCH"
    /\ response.success
    /\ request.body = ObjectBody(Two("id", "ship-9.9", "location", "Hub"))
    /\ response.data["updatedFields"] = <<"location">>


\* ----------------------------------------------------------------------- C11
\* The call of paginate_list has returned
C11_Called == paginate_call.done

\* The elements of items at the 0-based indices first .. last, in their order
C11_Run(items, first, last) ==
    [k \in 1..(IF last >= first THEN last - first + 1 ELSE 0) |-> items[first + k]]

\* C11: for page >= 1 and limit >= 1, paginate_list returns as items the elements at
\* indices (page-1)*limit .. min(page*limit, n)-1 in their order, hasNextPage =
\* (page < totalPages), hasPreviousPage = (page > 1), totalItems = n, and echoes page
\* and limit.
C11_SliceAndFlags ==
    (C11_Called /\ paginate_call.page >= 1 /\ paginate_call.limit >= 1) =>
        LET c == paginate_call
            n == Len(c.items)
            upto == IF c.page * c.limit < n THEN c.page * c.limit ELSE n
            meta == c.result.pagination
        IN /\ c.result.items = C11_Run(c.items, (c.page - 1) * c.limit, upto - 1)
           /\ meta.hasNextPage = (c.page < meta.totalPages)
           /\ meta.hasPreviousPage = (c.page > 1)
           /\ meta.totalItems = n
           /\ meta.page = c.page
           /\ meta.limit = c.limit

\* Page 2 of a three-element list at limit 1 came back as its middle element, with a
\* next and a previous page.
C11_Witness ==
    /\ C11_Called
    /\ paginate_call.items = <<"a", "b", "a">>
    /\ paginate_call.page = 2
    /\ paginate_call.limit = 1
    /\ paginate_call.result.items = <<"b">>
    /\ paginate_call.result.pagination.hasNextPage
    /\ paginate_call.result.pagination.hasPreviousPage

\* ----------------------------------------------------------------------- C12
\* C12: totalPages is the ceiling of totalItems / limit when limit > 0 (0 for an empty
\* list); when limit = 0 the call returns, with totalPages = 1 and no items.
C12_TotalPages ==
    C11_Called =>
        LET c == paginate_call
            n == Len(c.items)
            pages == c.result.pagination.totalPages
        IN /\ c.limit > 0 => /\ pages >= 0
                             /\ pages * c.limit >= n
                             /\ (pages - 1) * c.limit < n
           /\ c.limit = 0 => /\ pages = 1
                             /\ c.result.items = <<>>

\* Three items at limit 2 gave two pages.
C12_Witness ==
    /\ C11_Called
    /\ Len(paginate_call.items) = 3
    /\ paginate_call.limit = 2
    /\ paginate_call.result.pagination.totalPages = 2

\* ----------------------------------------------------------------------- C13
\* C13: for limit >= 1 and a page greater than totalPages the call returns no items,
\* hasNextPage = false, and hasPreviousPage = true whenever page > 1.
C13_PageBeyondLast ==
    (/\ C11_Called
     /\ paginate_call.limit >= 1
     /\ paginate_call.page > paginate_call.result.pagination.totalPages) =>
        /\ paginate_call.result.items = <<>>
        /\ ~paginate_call.result.pagination.hasNextPage
        /\ paginate_call.page > 1 => paginate_call.result.pagination.hasPreviousPage

\* Page 4 of a three-element list at limit 2 (two pages) came back empty.
C13_Witness ==
    /\ C11_Called
    /\ Len(paginate_call.items) = 3
    /\ paginate_call.limit = 2
    /\ paginate_call.page = 4
    /\ paginate_call.result.items = <<>>
    /\ paginate_call.result.pagination.hasPreviousPage

\* ----------------------------------------------------------------------- C14
\* C14: for limit >= 1 and page <= 0 the returned items are empty or are the items of
\* page 1, never another run of the list.
C14_NonPositivePage ==
    (C11_Called /\ paginate_call.limit >= 1 /\ paginate_call.page <= 0) =>
        LET c == paginate_call
            n == Len(c.items)
        IN \/ c.result.items = <<>>
           \/ c.result.items = C11_Run(c.items, 0, (IF c.limit < n THEN c.limit ELSE n) - 1)


\* ----------------------------------------------------------------------- C15
\* C15: the record at each position of the store keeps the id it was created with,
\* whatever replace and patch calls are made, also with payloads that contain an id.
C15_IdNeverChanges ==
    [][\A i \in 1..Len(created_shipments) :
          /\ i <= Len(created_shipments')
          /\ created_shipments'[i]["id"] = created_shipments[i]["id"]]_vars

\* A patch whose payload carried an id succeeded and the record has another id.
C15_Witness ==
    /\ request.op = "PATCH"
    /\ request.body.kind = "object"
    /\ "id" \in DOMAIN request.body.obj
    /\ response.success
    /\ response.data["id"] # request.body.obj["id"]
    /\ response.data["id"] = request.id

\* ----------------------------------------------------------------------- C16
C16_Stamped(shipment) == "updatedAt" \in DOMAIN shipment

\* The record a replace or patch with identifier id works on: the first that has it
C16_Target(store, id) ==
    CHOOSE i \in Holding(store, id) : \A j \in Holding(store, id) : i <= j

\* This step is a successful replace or patch on the record at position i
C16_UpdatedHere(i) ==
    /\ Served
    /\ request'.op \in {"PUT", "PATCH"}
    /\ response'.success
    /\ Holding(created_shipments, request'.id) # {}
    /\ i = C16_Target(created_shipments, request'.id)

\* C16: a stored shipment has updatedAt if and only if a replace or patch on it has
\* succeeded: a record has it after a step exactly when it had it before or the step
\* is a successful replace or patch on that record (so not after create, not after a
\* rejected call, and after every successful one, also a patch that assigns no field).
C16_UpdatedAtIffUpdated ==
    [][\A i \in 1..Len(created_shipments') :
          C16_Stamped(created_shipments'[i]) <=>
              \/ i <= Len(created_shipments) /\ C16_Stamped(created_shipments[i])
              \/ C16_UpdatedHere(i)]_vars

\* A patch with no allow-listed field succeeded, named no field and stamped updatedAt.
C16_Witness ==
    /\ request.op = "PATCH"
    /\ request.body = ObjectBody(One("carrier", "UPS"))
    /\ response.success
    /\ response.data["updatedFields"] = <<>>
    /\ C16_Stamped(created_shipments[C16_Target(created_shipments, request.id)])

\* ----------------------------------------------------------------------- C17
\* C17: the store is empty at startup; in every step its length does not decrease and
\* the record at each position stays at that position (creation order); a listing
\* returns the records in that order: page p at limit l, both >= 1, is the run of the
\* store from position (p-1)*l, and the default listing of a store of up to 10 records
\* is the whole store.
C17_AppendOnly ==
    /\ created_shipments = <<>>
    /\ [][/\ Len(created_shipments') >= Len(created_shipments)
          /\ \A i \in 1..Len(created_shipments) :
                created_shipments'[i]["id"] = created_shipments[i]["id"]
          /\ (Served /\ request'.op = "LIST" /\ response'.success) =>
                LET page == IF request'.page.kind = "int" THEN request'.page.value ELSE 1
                    limit == IF request'.limit.kind = "int" THEN request'.limit.value ELSE 10
                    n == Len(created_shipments)
                    upto == IF page * limit < n THEN page * limit ELSE n
                IN /\ created_shipments' = created_shipments
                   /\ (page >= 1 /\ limit >= 1) =>
                         response'.data.items =
                             C11_Run(created_shipments, (page - 1) * limit, upto - 1)]_vars

\* The default listing of a store of two records returned both, in store order.
C17_Witness ==
    /\ request.op = "LIST"
    /\ request.page.kind = "absent"
    /\ request.limit.kind = "absent"
    /\ response.success
    /\ Len(created_shipments) = 2
    /\ response.data.items = created_shipments
    /\ created_shipments[1]["id"] # created_shipments[2]["id"]

\* ----------------------------------------------------------------------- C18
\* C18: a successful create makes the store one longer, with the returned record last
\* and the earlier records as they were; a create rejected for a non-JSON content type
\* or a null body is rejected and leaves the store unchanged.
C18_CreateAppendsOne ==
    [][(Served /\ request'.op = "POST") =>
          /\ response'.success =>
                /\ Len(created_shipments') = Len(created_shipments) + 1
                /\ created_shipments'[Len(created_shipments')] = response'.data
                /\ SubSeq(created_shipments', 1, Len(created_shipments)) = created_shipments
          /\ (~request'.is_json \/ request'.body.kind = "null") =>
                /\ ~response'.success
                /\ response'.status_code = 400
          /\ ~response'.success => created_shipments' = created_shipments]_vars

\* A second create succeeded: the store holds two records and the returned one is last.
C18_Witness ==
    /\ request.op = "POST"
    /\ response.success
    /\ Len(created_shipments) = 2
    /\ created_shipments[2] = response.data

\* ----------------------------------------------------------------------- C19
\* C19: a successful replace changes, in the targeted record alone, at most those of
\* carrier, trackingNumber, status and estimatedDelivery that the payload supplies, and
\* updatedAt; the record's other fields, its position and all other records are as
\* they were.
C19_ReplaceFrame ==
    [][(Served /\ request'.op = "PUT" /\ response'.success) =>
          /\ Len(created_shipments') = Len(created_shipments)
          /\ \E i \in Holding(created_shipments, request'.id) :
                /\ \A j \in 1..Len(created_shipments) :
                      j # i => created_shipments'[j] = created_shipments[j]
                /\ C4_SameOutside(created_shipments[i], created_shipments'[i],
                                  (DOMAIN request'.body.obj \cap C9_ReplaceFields)
                                      \cup {"updatedAt"})]_vars

\* ----------------------------------------------------------------------- C20
\* The payload of a patch is empty or absent
C20_NoData(body) ==
    \/ body.kind = "null"
    \/ body.kind = "zero"
    \/ body.kind = "object" /\ DOMAIN body.obj = {}

\* C20: a patch with an empty or absent payload returns ValidationError (INVALID_DATA,
\* 400) whether or not the id exists; a patch with a payload on a missing id returns
\* NotFound (404); the store is unchanged in both cases.
C20_PayloadCheckedBeforeId ==
    [][(Served /\ request'.op = "PATCH") =>
          /\ C20_NoData(request'.body) =>
                /\ ~response'.success
                /\ response'.error = "INVALID_DATA"
                /\ response'.status_code = 400
                /\ created_shipments' = created_shipments
          /\ (~C20_NoData(request'.body) /\ Holding(created_shipments, request'.id) = {}) =>
                /\ ~response'.success
                /\ response'.error = "SHIPMENT_NOT_FOUND"
                /\ response'.status_code = 404
                /\ created_shipments' = created_shipments]_vars

\* A patch with an empty payload for an id the store does not hold was answered
\* INVALID_DATA, not NotFound.
C20_Witness ==
    /\ request.op = "PATCH"
    /\ request.body = ObjectBody(EmptyDict)
    /\ Holding(created_shipments, request.id) = {}
    /\ ~response.success
    /\ response.error = "INVALID_DATA"

\* ----------------------------------------------------------------------- C21
\* The position of the record a replace or patch of identifier id works on
C21_Target(store, id) == FindShipment(store, id)

\* C21: no order of status transitions is enforced.  A replace whose payload is
\* {status: t} with t one of the five legal statuses, aimed at a stored shipment whose
\* status s is any legal status, succeeds with 200 and leaves that record with status
\* t, whatever s and t are (from delivered or cancelled back to pending too).
C21_AnyTransition ==
    [][(/\ Served
        /\ request'.op = "PUT"
        /\ request'.is_json
        /\ request'.body.kind = "object"
        /\ \E t \in StatusEnum : request'.body.obj = One("status", t)
        /\ C21_Target(created_shipments, request'.id) # 0
        /\ created_shipments[C21_Target(created_shipments, request'.id)]["status"]
              \in StatusEnum)
       => /\ response'.success
          /\ response'.status_code = 200
          /\ response'.data["status"] = request'.body.obj["status"]
          /\ created_shipments'[C21_Target(created_shipments, request'.id)]["status"]
                = request'.body.obj["status"]
          /\ \A k \in DOMAIN created_shipments[C21_Target(created_shipments, request'.id)]
                      \ {"status", "updatedAt"} :
                created_shipments'[C21_Target(created_shipments, request'.id)][k]
                  = created_shipments[C21_Target(created_shipments, request'.id)][k]]_vars

\* The third request of a run replaced the status of the only shipment, which an
\* earlier replace had stamped, by pending.
C21_Witness ==
    /\ served = 3
    /\ Len(created_shipments) = 1
    /\ request.op = "PUT"
    /\ request.body = ObjectBody(One("status", "pending"))
    /\ response.success
    /\ created_shipments[1]["status"] = "pending"
    /\ response.data["updatedAt"] = created_shipments[1]["updatedAt"]

\* ----------------------------------------------------------------------- C22
\* A call of paginate_list is made in this step
C22_Call == paginate_call'.calls = paginate_call.calls + 1

C23_Stored == created_shipments[FindShipment(created_shipments, request.id)]

\* The payload's value was stored for every field of fields that the payload carries
C23_AsRequested(fields) ==
    \A k \in fields \cap DOMAIN request.body.obj : C23_Stored[k] = request.body.obj[k]

\* C23: every create, replace and patch call has one outcome with the HTTP status of
\* its kind: 201 for a successful create, 200 for a successful replace or patch, 400 or
\* 404 for a failure; and success = true is answered only when the store was updated
\* as requested: the created record is the last of the list, a replace stored each of
\* carrier, trackingNumber, status, estimatedDelivery it was given, a patch stored
\* each allow-listed field it was given.
C23_OneOutcomePerCall ==
    request.op \in {"POST", "PUT", "PATCH"}
    => /\ response.success
          => response.status_code = (IF request.op = "POST" THEN 201 ELSE 200)
       /\ ~response.success => response.status_code \in {400, 404}
       /\ (response.success /\ request.op = "POST")
          => created_shipments[Len(created_shipments)] = response.data
       /\ (response.success /\ request.op = "PUT") => C23_AsRequested(C9_ReplaceFields)
       /\ (response.success /\ request.op = "PATCH") => C23_AsRequested(C10_AllowList)

\* ----------------------------------------------------------------------- C24
\* C24: the list handler answers every query with success: a page or limit that is
\* absent or is no integer is replaced by 1 or 10, and the listing is made with those
\* values.
C24_ListFallsBackToDefaults ==
    request.op = "LIST"
    => /\ response.success
       /\ response.status_code = 200
       /\ response.data.pagination.page = ArgValue(request.page, 1)
       /\ response.data.pagination.limit = ArgValue(request.limit, 10)

\* ----------------------------------------------------------------------- C26
\* The record r after the whole replace in flight, and after the whole patch
C26_Replaced(r) == ApplyUpdate(r, threads.put.data, now)
C26_Patched(r) == ApplyPatch(r, threads.patch.data, now)

\* The record after the two requests, run one after the other in either order
C26_SerialOutcomes(r) == {C26_Patched(C26_Replaced(r)), C26_Replaced(C26_Patched(r))}

\* The states of the record between whole requests
C26_WholeStates(r) ==
    {r, C26_Replaced(r), C26_Patched(r)} \cup C26_SerialOutcomes(r)

\* C26: a replace and a patch of the same shipment in flight together are
\* serializable.  Once both have answered success the stored record is the one that
\* running the two requests one after the other, in one of the two orders, leaves;
\* and every record a list response shows is the record as it was between whole
\* requests, never one with part of a request's fields assigned.
C26_Serializable ==
    /\ (/\ threads.put.pc = "done" /\ threads.put.response.success
        /\ threads.patch.pc = "done" /\ threads.patch.response.success)
       => created_shipments[1] \in C26_SerialOutcomes(threads.create.shipment)
    /\ threads.list.pc = "done"
       => \A i \in 1..Len(threads.list.response.data.items) :
             threads.list.response.data.items[i]
                 \in C26_WholeStates(threads.create.shipment)

\* ----------------------------------------------------------------------- C27
\* C27: a list response is consistent with itself when a create runs beside it.  It
\* never holds more items than limit or than totalItems says, and there is one
\* snapshot of the store (the list as it stood after some number of appends) whose
\* pagination is the response's pagination and whose page has the response's items.
C27_ListIsOneSnapshot ==
    threads.list.pc = "done"
    => LET data == threads.list.response.data
           l == threads.list
       IN /\ l.limit > 0 => Len(data.items) <= l.limit
          /\ Len(data.items) <= data.pagination.totalItems
          /\ \E k \in 0..Len(created_shipments) :
                LET snapshot == paginate_list(SubSeq(created_shipments, 1, k),
                                              l.page, l.limit)
                IN /\ snapshot.pagination = data.pagination
                   /\ Len(snapshot.items) = Len(data.items)
                   /\ \A i \in 1..Len(data.items) :
                         data.items[i]["id"] = snapshot.items[i]["id"]

\* ----------------------------------------------------------------------- C28
\* The items of the first k fetched pages, one after the other
RECURSIVE C28_Concat(_, _)
C28_Concat(fetched, k) ==
    IF k = 0 THEN <<>> ELSE C28_Concat(fetched, k - 1) \o fetched[k].items

\* C28: for limit >= 1 the pages 1..totalPages partition the list.  Of the pages
\* fetched so far: each one before page totalPages holds exactly limit items, page
\* totalPages holds between 1 and limit items, hasNextPage of page k is true exactly
\* when page k + 1 came back non-empty, and once pages 1..totalPages are all fetched
\* their items, one page after the other, are the list itself.
C28_PagesPartition ==
    LET fetched == paginate_call.fetched
        n == Len(fetched)
        limit == paginate_call.limit
    IN n >= 1 =>
       LET total_pages == fetched[1].pagination.totalPages IN
       /\ \A k \in 1..n :
             /\ fetched[k].pagination.page = k
             /\ fetched[k].pagination.totalPages = total_pages
             /\ k < total_pages => Len(fetched[k].items) = limit
             /\ k = total_pages => Len(fetched[k].items) \in 1..limit
             /\ k < n => (fetched[k].pagination.hasNextPage <=> fetched[k + 1].items # <<>>)
       /\ n >= total_pages => C28_Concat(fetched, total_pages) = paginate_call.items

\* Three elements walked with limit 2: a full page, a last page of one, an empty page.
C28_Witness ==
    /\ Len(paginate_call.items) = 3
    /\ paginate_call.limit = 2
    /\ Len(paginate_call.fetched) = 3
    /\ Len(paginate_call.fetched[1].items) = 2
    /\ Len(paginate_call.fetched[2].items) = 1
    /\ paginate_call.fetched[3].items = <<>>

\* ----------------------------------------------------------------------- C25
\* The response says success (handle_error's answer has no such key)
Succeeded(resp) == "success" \in DOMAIN resp /\ resp.success

\* The process-wide collections are as they were
C25_CollectionsUnchanged ==
    /\ created_shipments' = created_shipments
    /\ mock_employees' = mock_employees

\* What the list handler answers to the query of req when the store is the list store
C25_Listing(store, req) ==
    paginate_list(store, ArgValue(req.page, 1), ArgValue(req.limit, 10))

\* C25 as stated: the v2 shipment create, replace and patch handlers are the only
\* operations that change server-side state; every other request, those to the HR
\* routes included, leaves created_shipments and mock_employees unchanged, so its
\* response does not depend on earlier requests: a listing, for one, is the listing
\* of the store no request has written to.
C25_OnlyShipmentWritesChangeState ==
    [][(Served /\ request'.op \notin {"POST", "PUT", "PATCH"})
       => /\ C25_CollectionsUnchanged
          /\ (request'.op = "LIST" /\ Succeeded(response'))
             => response'.data = C25_Listing(<<>>, request')]_vars

\* ----------------------------------------------------------------------- C30
\* C30: after any sequence or interleaving of create_employee calls no two records of
\* mock_employees have the same id, every id is a positive integer, and the ids of
\* the appended records go up one by one from the largest id the module starts with.
C30_EmployeeIdsDistinct ==
    /\ \A i, j \in 1..Len(mock_employees) :
          i # j => mock_employees[i]["id"] # mock_employees[j]["id"]
    /\ \A i \in 1..Len(mock_employees) : mock_employees[i]["id"] = i

\* ----------------------------------------------------------------------- C29
\* The salaries of emps are all numbers and add up to total
RECURSIVE C29_SalariesAddUpTo(_, _)
C29_SalariesAddUpTo(emps, total) ==
    IF emps = <<>> THEN total = 0
    ELSE /\ emps[1]["salary"].kind = "number"
         /\ C29_SalariesAddUpTo(Tail(emps), total - emps[1]["salary"].value)

\* C29: get_hr_stats succeeds after any sequence of create_employee calls, one whose
\* payload had no salary included: it answers 200 with total_employees the length of
\* the list, active_employees at most that, and average_salary the sum of the
\* salaries divided by the number of employees.
C29_StatsSucceed ==
    request.op = "HR_STATS"
    => /\ Succeeded(response)
       /\ response.status_code = 200
       /\ response.data.total_employees = Len(mock_employees)
       /\ response.data.active_employees <= response.data.total_employees
       /\ response.data.average_salary.divisor = Len(mock_employees)
       /\ C29_SalariesAddUpTo(mock_employees, response.data.average_salary.dividend)

=============================================================================
